---- MODULE Spec2Model ----
(***************************************************************************)
(* httpstan: the compile / load pipeline of src/httpstan/models.py and the *)
(* shutdown hook of src/httpstan/app.py.                                   *)
(*                                                                         *)
(* One event-loop thread runs the coroutines; the default executor runs    *)
(* what run_in_executor is given.  A call is one invocation of             *)
(* compile_model_extension_module or import_model_extension_module.        *)
(***************************************************************************)
EXTENDS Integers, Sequences, FiniteSets, TLC

VARIABLES
    calls,            \* per call: position, arguments, locals, result
    running,          \* the call the event-loop thread is executing, 0 when it is free
    buildCache,       \* functools.lru_cache of _build_extension_module, oldest entry first
    fd1, fd2,         \* what the process's descriptors 1 and 2 refer to
    openFds,          \* descriptors opened by builds and still open
    tmpDirs,          \* scratch directories that exist on disk
    binaries,         \* <<directory, module name>>: a loadable module file on disk
    dirsCreated,      \* number of mkdtemp calls so far (names the next directory)
    sysPath,          \* entries appended to sys.path
    sysModules,       \* sys.modules: module name -> directory it was loaded from
    store,            \* model names the persistent cache holds
    stdoutHasFileno,  \* sys.stdout has a working fileno()
    platformSystem,   \* platform.system()
    stderrHasFileno,  \* sys.stderr has a working fileno()
    faults,           \* environment failures the run may still meet
    toolchainRuns,    \* per program: executions of build_extension.run
    firstArtifact,    \* per program: the pair its first successful compile returned
    missesSince,      \* per program: cache insertions since its entry was last used
    operations,       \* app["operations"]: sequence of [name, done], insertion order
    onCleanup,        \* app.on_cleanup: the registered hooks
    appPhase,         \* "none", "made", "cleaned"
    criticalLog       \* logger.critical messages, in order

vars == <<calls, running, buildCache, fd1, fd2, openFds, tmpDirs, binaries,
          dirsCreated, sysPath, sysModules, store, stdoutHasFileno, platformSystem,
          stderrHasFileno, faults, toolchainRuns, firstArtifact, missesSince,
          operations, onCleanup, appPhase, criticalLog>>

procVars == <<calls, running, buildCache, fd1, fd2, openFds, tmpDirs, binaries,
              dirsCreated, sysPath, sysModules, store, stdoutHasFileno, platformSystem,
              stderrHasFileno, faults, toolchainRuns, firstArtifact, missesSince>>

appVars == <<operations, onCleanup, appPhase, criticalLog>>

(***************************************************************************)
(* Bounds of the model and constants of the program.                       *)
(***************************************************************************)
NumCalls == 2
NumPrograms == 2
MaxFaults == 1
NumOperations == 4
\* functools.lru_cache() with no argument: maxsize defaults to 128
CacheMaxSize == 128
\* blake2b(digest_size=5)
digest_size == 5

Calls == 1 .. NumCalls
\* program sources; 0 stands for a text the translator rejects
Programs == 0 .. NumPrograms
OperationNames == 1 .. NumOperations

(***************************************************************************)
(* Names.                                                                  *)
(***************************************************************************)
\* A name is the sequence of its pieces: "models", "/", then hex digits.
HexDigits == <<"0", "1", "2", "3", "4", "5", "6", "7",
               "8", "9", "a", "b", "c", "d", "e", "f">>

\* program_code.encode(): the bytes of a source text
encode(program_code) == <<program_code % 256, program_code \div 256>>

\* httpstan.stan.version().encode(), httpstan.__version__.encode() and
\* sys.platform.encode(): fixed for one process
stan_version == <<50, 46, 49, 57>>
httpstan_version == <<49, 46, 48>>
sys_platform ==
    IF platformSystem = "Windows" THEN <<119, 105, 110, 51, 50>>
                                  ELSE <<108, 105, 110, 117, 120>>

RECURSIVE Absorb(_, _, _)
\* the digest state after the bytes of stream, the i-th byte of the input
\* being the first of them
Absorb(state, stream, i) ==
    IF stream = <<>> THEN state
    ELSE LET k == (i % Len(state)) + 1
         IN  Absorb([state EXCEPT ![k] = (state[k] * 31 + Head(stream) + i) % 256],
                    Tail(stream), i + 1)

\* hashlib.blake2b(digest_size=n) after update() calls that fed it stream:
\* n bytes that depend on every byte fed and on the order they came in
blake2b(stream, n) == Absorb([k \in 1 .. n |-> 0], stream, 0)

RECURSIVE hexdigest(_)
hexdigest(bytes) ==
    IF bytes = <<>> THEN <<>>
    ELSE <<HexDigits[(Head(bytes) \div 16) + 1], HexDigits[(Head(bytes) % 16) + 1]>>
         \o hexdigest(Tail(bytes))

\* the hash fed the platform first and the source last
calculate_model_name_platform_first(program_code) ==
    <<"models", "/">>
        \o hexdigest(blake2b(sys_platform \o httpstan_version \o stan_version
                                 \o encode(program_code), digest_size))

\* lines 72-77: update() with the source, the stan version, the httpstan
\* version and the platform, in this order
calculate_model_name(program_code) ==
    <<"models", "/">>
        \o hexdigest(blake2b(encode(program_code) \o stan_version
                                 \o httpstan_version \o sys_platform, digest_size))

\* model_name.split("/")[-1]
LastComponent(model_name) ==
    LET slashes == {i \in 1 .. Len(model_name) : model_name[i] = "/"}
        last == IF slashes = {} THEN 0
                ELSE CHOOSE i \in slashes : \A j \in slashes : j <= i
    IN  SubSeq(model_name, last + 1, Len(model_name))

\* the prefix put before the whole name
calculate_module_name_unsplit(model_name) == <<"model_">> \o model_name

\* the first component taken for the last: split("/")[0]
calculate_module_name_first_component(model_name) ==
    <<"model_">> \o <<model_name[1]>>

\* lines 94-95: f"model_{model_id}"
calculate_module_name(model_name) == <<"model_">> \o LastComponent(model_name)

\* A file name is the sequence of its pieces too, "." being one of them.
\* a file name made of the module name and the bare suffix
module_filename_without_dot(module_name, system) ==
    module_name \o (IF system = "Windows" THEN <<"pyd">> ELSE <<"so">>)

\* line 168: f"{module_name}{'.so' if platform.system() != 'Windows' else '.pyd'}"
module_filename(module_name, system) ==
    module_name \o (IF system = "Windows" THEN <<".", "pyd">> ELSE <<".", "so">>)

\* os.path.splitext: <<root, ext>>, split at the last "." that follows the
\* last separator and is not one of the leading dots of that component
splitext(filename) ==
    LET idx == 1 .. Len(filename)
        seps == {i \in idx : filename[i] = "/"}
        sep == IF seps = {} THEN 0 ELSE CHOOSE i \in seps : \A j \in seps : j <= i
        dots == {i \in idx : filename[i] = "."}
        dot == IF dots = {} THEN 0 ELSE CHOOSE i \in dots : \A j \in dots : j <= i
    IN  IF dot > sep /\ \E i \in (sep + 1) .. (dot - 1) : filename[i] # "."
        THEN <<SubSeq(filename, 1, dot - 1), SubSeq(filename, dot, Len(filename))>>
        ELSE <<filename, <<>>>>

(***************************************************************************)
(* External collaborators.                                                 *)
(***************************************************************************)
\* httpstan.compile.compile: the generated C++ or a rejection
TranslatorAccepts(program_code) == program_code # 0

Translate(program_code, stan_model_name) ==
    IF TranslatorAccepts(program_code)
    THEN <<"cpp", program_code, stan_model_name>>
    ELSE <<"ValueError">>

pyx_code_template == <<"anonymous_stan_model_services.pyx.template">>

\* what the compiler writes to descriptor 2 for a build of this module
CompilerStderr(module_name) == <<<<"cc", module_name>>>>

\* the bytes of the built extension module
ModuleBytes(module_name) == <<"so", module_name>>

(***************************************************************************)
(* Values.                                                                 *)
(***************************************************************************)
NoText == <<>>
NoResult == [kind |-> "none", value |-> <<>>, exc |-> "", diagnostics |-> NoText]
Returned(v) == [kind |-> "ok", value |-> v, exc |-> "", diagnostics |-> NoText]
\* an exception propagates as raised: nothing is attached to it
Raised(exc) == [kind |-> "error", value |-> <<>>, exc |-> exc, diagnostics |-> NoText]

\* what a descriptor can refer to
Terminal1 == <<"stdout">>
Terminal2 == <<"stderr">>
DevNull == <<"devnull">>
Capture(c) == <<"capture", c>>

IdleCall == [pc |-> "idle", kind |-> "none", arg |-> 0, model_name |-> <<>>,
             cpp_code |-> <<>>,
             temp_dir |-> 0, module_filename |-> <<>>, written |-> {},
             redirect_stderr |-> FALSE,
             orig_stdout |-> <<>>, orig_stderr |-> <<>>,
             stream |-> NoText, compiler_output |-> NoText,
             outcome |-> "none", entered |-> FALSE, entryFds |-> <<>>,
             overlap |-> {}, result |-> NoResult]

InFlight(c) == calls[c].pc \notin {"idle", "done"}

\* calls are numbered in the order they are made
NextCall(c) ==
    /\ calls[c].pc = "idle"
    /\ \A d \in DOMAIN calls : d < c => calls[d].pc # "idle"

(***************************************************************************)
(* functools.lru_cache around _build_extension_module.                     *)
(***************************************************************************)
CacheKeys(cache) == {cache[i].key : i \in 1 .. Len(cache)}

CacheValue(cache, k) ==
    LET i == CHOOSE j \in 1 .. Len(cache) : cache[j].key = k IN cache[i].value

CacheWithout(cache, k) == SelectSeq(cache, LAMBDA e : e.key # k)

\* a memo whose hits leave the order of the entries alone (first in, first out)
lru_hit_keeps_order(cache, k) == cache

\* a hit makes the entry the most recently used one
lru_hit(cache, k) ==
    Append(CacheWithout(cache, k), [key |-> k, value |-> CacheValue(cache, k)])

\* a miss stores the value the call returned; a full cache drops its oldest
\* entry; a key stored meanwhile is left as it is
lru_store(cache, k, v) ==
    IF k \in CacheKeys(cache) THEN cache
    ELSE IF Len(cache) >= CacheMaxSize
         THEN Append(Tail(cache), [key |-> k, value |-> v])
         ELSE Append(cache, [key |-> k, value |-> v])

Min(a, b) == IF a < b THEN a ELSE b

\* bookkeeping, per program: the first pair returned, the cache's use
Remember(first, p, v) == IF first[p] = <<>> THEN [first EXCEPT ![p] = v] ELSE first
UsedEntry(since, p) == [since EXCEPT ![p] = 0]
StoredEntry(since, p) ==
    [q \in DOMAIN since |-> IF q = p THEN 0 ELSE Min(since[q] + 1, CacheMaxSize)]

(***************************************************************************)
(* TemporaryDirectory: mkdtemp, yield, rmtree.                             *)
(***************************************************************************)
\* the directories left when the with block is left: the generator has no
\* try/finally, so rmtree runs only when the block ends without an exception
TemporaryDirectoryExit(dirs, d, raised) == IF raised THEN dirs ELSE dirs \ {d}

FilesAfterExit(bins, d, raised) ==
    IF raised THEN bins ELSE {b \in bins : b[1] # d}

(***************************************************************************)
(* _import_module: sys.path.append, importlib.import_module, sys.path.pop  *)
(***************************************************************************)
Front(s) == SubSeq(s, 1, Len(s) - 1)

\* the directory importlib loads module_name from, 0 when no entry has it
FindOnPath(path, module_name, bins) ==
    LET hits == {i \in 1 .. Len(path) : <<path[i], module_name>> \in bins}
    IN  IF hits = {} THEN 0
        ELSE path[CHOOSE i \in hits : \A j \in hits : i <= j]

import_module(module_name, module_path, path, mods, bins, corrupt) ==
    LET appended == Append(path, module_path)
        found == FindOnPath(appended, module_name, bins)
    IN  IF module_name \in DOMAIN mods
        THEN [ok |-> TRUE, sysPath |-> Front(appended), sysModules |-> mods]
        ELSE IF found = 0 \/ corrupt
        THEN [ok |-> FALSE, sysPath |-> appended, sysModules |-> mods]
        ELSE [ok |-> TRUE, sysPath |-> Front(appended),
              sysModules |-> (module_name :> found) @@ mods]

(***************************************************************************)
(* The event loop.                                                         *)
(***************************************************************************)
\* the build handed to the executor like the translator
BuildRunsOnExecutor == "executor"

\* line 122 calls _build_extension_module directly, in the coroutine: the
\* build runs on the thread that runs the event loop
BuildRunsOn == "loop"

LoopFree == running = 0
HoldsLoop(c) == BuildRunsOn = "loop" => running = c
Occupy(c) == IF BuildRunsOn = "loop" THEN c ELSE 0

\* a call ends by raising
ExitRaise(cs, c, exc) ==
    [cs EXCEPT ![c].pc = "done", ![c].result = Raised(exc)]

CallModule(c) == calculate_module_name(calls[c].model_name)
BuildKey(c) == <<CallModule(c), calls[c].cpp_code, pyx_code_template>>

(***************************************************************************)
(* compile_model_extension_module                                          *)
(***************************************************************************)
\* lines 113-119: names, then the translator is handed to the executor
StartCompile(c, program_code) ==
    /\ LoopFree
    /\ NextCall(c)
    /\ calls' = [calls EXCEPT ![c].pc = "translating", ![c].kind = "compile",
                              ![c].arg = program_code,
                              ![c].model_name = calculate_model_name(program_code),
                              ![c].overlap = {d \in DOMAIN calls : InFlight(d)}]
    /\ UNCHANGED <<running, buildCache, fd1, fd2, openFds, tmpDirs, binaries,
                   dirsCreated, sysPath, sysModules, store, stdoutHasFileno, platformSystem,
                   stderrHasFileno, faults, toolchainRuns, firstArtifact, missesSince>>
    /\ UNCHANGED appVars

\* an executor worker runs httpstan.compile.compile and resolves the future
TranslatorFinishes(c) ==
    /\ calls[c].pc = "translating"
    /\ calls' = [calls EXCEPT ![c].pc = "translated",
                              ![c].cpp_code = Translate(calls[c].arg, CallModule(c))]
    /\ UNCHANGED <<running, buildCache, fd1, fd2, openFds, tmpDirs, binaries,
                   dirsCreated, sysPath, sysModules, store, stdoutHasFileno, platformSystem,
                   stderrHasFileno, faults, toolchainRuns, firstArtifact, missesSince>>
    /\ UNCHANGED appVars

\* the await at line 117 raises what the translator raised
TranslationRejected(c) ==
    /\ LoopFree
    /\ calls[c].pc = "translated"
    /\ calls[c].cpp_code = <<"ValueError">>
    /\ calls' = ExitRaise(calls, c, "ValueError")
    /\ UNCHANGED <<running, buildCache, fd1, fd2, openFds, tmpDirs, binaries,
                   dirsCreated, sysPath, sysModules, store, stdoutHasFileno, platformSystem,
                   stderrHasFileno, faults, toolchainRuns, firstArtifact, missesSince>>
    /\ UNCHANGED appVars

CanBuild(c) ==
    /\ LoopFree
    /\ calls[c].pc = "translated"
    /\ calls[c].cpp_code # <<"ValueError">>

\* line 122 with the arguments in the cache: the stored pair is returned
BuildCacheHit(c) ==
    /\ CanBuild(c)
    /\ BuildKey(c) \in CacheKeys(buildCache)
    /\ buildCache' = lru_hit(buildCache, BuildKey(c))
    /\ missesSince' = UsedEntry(missesSince, calls[c].arg)
    /\ calls' = [calls EXCEPT ![c].pc = "done", ![c].entryFds = <<fd1, fd2>>,
                              ![c].result = Returned(CacheValue(buildCache, BuildKey(c)))]
    /\ firstArtifact' = Remember(firstArtifact, calls[c].arg,
                                 CacheValue(buildCache, BuildKey(c)))
    /\ UNCHANGED <<running, fd1, fd2, openFds, tmpDirs, binaries,
                   dirsCreated, sysPath, sysModules, store, stdoutHasFileno, platformSystem,
                   stderrHasFileno, faults, toolchainRuns>>
    /\ UNCHANGED appVars

(***************************************************************************)
(* _build_extension_module, lines 250-305: scratch directory, sources,     *)
(* capture stream, redirection.                                            *)
(***************************************************************************)
CanEnterBuild(c) ==
    /\ CanBuild(c)
    /\ BuildKey(c) \notin CacheKeys(buildCache)

\* _has_fileno(sys.stderr)
has_fileno_stderr == stderrHasFileno

\* line 301: the redirection is attempted when stderr has a descriptor
redirect_stderr == has_fileno_stderr

NewDir == dirsCreated + 1

Entered(cs, c) ==
    [cs EXCEPT ![c].entered = TRUE, ![c].entryFds = <<fd1, fd2>>,
               ![c].temp_dir = NewDir]

CountRun(runs, p) == [runs EXCEPT ![p] = @ + 1]

\* line 300: the TemporaryFile is a local of the build; when the build ends
\* with the file still open, the file object is reclaimed with the frame and
\* its descriptor is closed.  What os.dup returned is a number: nothing
\* closes it.
FrameReleased(fds, stream_open) == IF stream_open THEN fds - 1 ELSE fds

\* stderr cannot be redirected: the toolchain runs with the descriptors as
\* they are
BuildSetupPlain(c) ==
    /\ CanEnterBuild(c)
    /\ ~redirect_stderr
    /\ calls' = [Entered(calls, c) EXCEPT ![c].pc = "toolchain",
                                          ![c].redirect_stderr = FALSE]
    /\ running' = Occupy(c)
    /\ tmpDirs' = tmpDirs \cup {NewDir}
    /\ dirsCreated' = NewDir
    /\ openFds' = openFds + 1
    /\ toolchainRuns' = CountRun(toolchainRuns, calls[c].arg)
    /\ UNCHANGED <<buildCache, fd1, fd2, binaries, sysPath, sysModules, store,
                   stdoutHasFileno, platformSystem, stderrHasFileno, faults, firstArtifact, missesSince>>
    /\ UNCHANGED appVars

\* _redirect_stdout, line 228: sys.stdout.fileno() raises, outside the try
BuildSetupStdoutUnsupported(c) ==
    /\ CanEnterBuild(c)
    /\ redirect_stderr
    /\ ~stdoutHasFileno
    /\ calls' = ExitRaise(Entered(calls, c), c, "UnsupportedOperation")
    /\ tmpDirs' = TemporaryDirectoryExit(tmpDirs \cup {NewDir}, NewDir, TRUE)
    /\ dirsCreated' = NewDir
    /\ openFds' = FrameReleased(openFds + 1, TRUE)
    /\ UNCHANGED <<running, buildCache, fd1, fd2, binaries, sysPath, sysModules,
                   store, stdoutHasFileno, platformSystem, stderrHasFileno, faults, toolchainRuns,
                   firstArtifact, missesSince>>
    /\ UNCHANGED appVars

\* _redirect_stdout done, then os.dup in _redirect_stderr_to fails (line 244)
BuildSetupDupFails(c) ==
    /\ CanEnterBuild(c)
    /\ redirect_stderr
    /\ stdoutHasFileno
    /\ faults > 0
    /\ faults' = faults - 1
    /\ calls' = ExitRaise([Entered(calls, c) EXCEPT ![c].orig_stdout = fd1],
                          c, "OSError")
    /\ fd1' = DevNull
    /\ tmpDirs' = TemporaryDirectoryExit(tmpDirs \cup {NewDir}, NewDir, TRUE)
    /\ dirsCreated' = NewDir
    /\ openFds' = FrameReleased(openFds + 2, TRUE)
    /\ UNCHANGED <<running, buildCache, fd2, binaries, sysPath, sysModules,
                   store, stdoutHasFileno, platformSystem, stderrHasFileno, toolchainRuns,
                   firstArtifact, missesSince>>
    /\ UNCHANGED appVars

\* lines 304-305: descriptor 1 to /dev/null, descriptor 2 to the stream
BuildSetupRedirect(c) ==
    /\ CanEnterBuild(c)
    /\ redirect_stderr
    /\ stdoutHasFileno
    /\ calls' = [Entered(calls, c) EXCEPT ![c].pc = "toolchain",
                                          ![c].redirect_stderr = TRUE,
                                          ![c].orig_stdout = fd1,
                                          ![c].orig_stderr = fd2]
    /\ running' = Occupy(c)
    /\ fd1' = DevNull
    /\ fd2' = Capture(c)
    /\ tmpDirs' = tmpDirs \cup {NewDir}
    /\ dirsCreated' = NewDir
    /\ openFds' = openFds + 3
    /\ toolchainRuns' = CountRun(toolchainRuns, calls[c].arg)
    /\ UNCHANGED <<buildCache, binaries, sysPath, sysModules, store,
                   stdoutHasFileno, platformSystem, stderrHasFileno, faults, firstArtifact, missesSince>>
    /\ UNCHANGED appVars

(***************************************************************************)
(* lines 306-317: cythonize and build_extension.run, then the finally.     *)
(***************************************************************************)
\* the compiler's diagnostics go to whatever descriptor 2 refers to
WriteStderr(cs, text) ==
    [d \in DOMAIN cs |->
        IF fd2 = Capture(d) THEN [cs[d] EXCEPT !.stream = @ \o text] ELSE cs[d]]

ToolchainOutcomes == IF faults > 0 THEN {"ok", "fail", "missing"} ELSE {"ok"}

\* the toolchain ends (a binary, a raise, or no output file); the finally
\* reads the stream and puts the descriptors back
ToolchainFinishes(c, outcome) ==
    /\ calls[c].pc = "toolchain"
    /\ HoldsLoop(c)
    /\ outcome \in ToolchainOutcomes
    /\ faults' = IF outcome = "ok" THEN faults ELSE faults - 1
    /\ LET written == WriteStderr(calls, CompilerStderr(CallModule(c)))
           read == [written EXCEPT ![c].compiler_output =
                        IF calls[c].redirect_stderr THEN written[c].stream ELSE NoText,
                                   ![c].outcome = outcome]
       IN  /\ calls' = IF outcome = "fail"
                       THEN ExitRaise(read, c, "CompileError")
                       ELSE [read EXCEPT ![c].pc = "built"]
           /\ running' = IF outcome = "fail" THEN 0 ELSE running
    /\ IF calls[c].redirect_stderr
       THEN /\ fd2' = calls[c].orig_stderr
            /\ fd1' = calls[c].orig_stdout
            /\ openFds' = openFds - 1
       ELSE /\ UNCHANGED <<fd1, fd2>>
            /\ openFds' = FrameReleased(openFds, outcome = "fail")
    /\ binaries' = IF outcome = "ok"
                   THEN binaries \cup {<<calls[c].temp_dir, CallModule(c)>>}
                   ELSE binaries
    /\ tmpDirs' = IF outcome = "fail"
                  THEN TemporaryDirectoryExit(tmpDirs, calls[c].temp_dir, TRUE)
                  ELSE tmpDirs
    /\ UNCHANGED <<buildCache, dirsCreated, sysPath, sysModules, store,
                   stdoutHasFileno, platformSystem, stderrHasFileno, toolchainRuns, firstArtifact,
                   missesSince>>
    /\ UNCHANGED appVars

\* line 313: the captured bytes are not valid UTF-8; the finally raises
\* before it closes the stream or restores the descriptors
DecodeFails(c) ==
    /\ calls[c].pc = "toolchain"
    /\ HoldsLoop(c)
    /\ calls[c].redirect_stderr
    /\ faults > 0
    /\ faults' = faults - 1
    /\ calls' = ExitRaise(WriteStderr(calls, CompilerStderr(CallModule(c))),
                          c, "UnicodeDecodeError")
    /\ running' = 0
    /\ tmpDirs' = TemporaryDirectoryExit(tmpDirs, calls[c].temp_dir, TRUE)
    /\ openFds' = FrameReleased(openFds, TRUE)
    /\ UNCHANGED <<buildCache, fd1, fd2, binaries, dirsCreated, sysPath,
                   sysModules, store, stdoutHasFileno, platformSystem, stderrHasFileno,
                   toolchainRuns, firstArtifact, missesSince>>
    /\ UNCHANGED appVars

(***************************************************************************)
(* lines 319-322: import the built module, read its file back, return.     *)
(***************************************************************************)
BuildReturns(c) ==
    /\ calls[c].pc = "built"
    /\ HoldsLoop(c)
    /\ LET m == CallModule(c)
           d == calls[c].temp_dir
           imp == import_module(m, d, sysPath, sysModules, binaries, FALSE)
           file == IF imp.ok THEN <<imp.sysModules[m], m>> ELSE <<0, m>>
           value == <<ModuleBytes(m), calls[c].compiler_output>>
       IN  /\ sysPath' = imp.sysPath
           /\ sysModules' = imp.sysModules
           /\ IF ~imp.ok
              THEN /\ calls' = ExitRaise(calls, c, "ModuleNotFoundError")
                   /\ tmpDirs' = TemporaryDirectoryExit(tmpDirs, d, TRUE)
                   /\ binaries' = FilesAfterExit(binaries, d, TRUE)
                   /\ UNCHANGED <<buildCache, firstArtifact, missesSince>>
              ELSE IF file \notin binaries
              THEN /\ calls' = ExitRaise(calls, c, "FileNotFoundError")
                   /\ tmpDirs' = TemporaryDirectoryExit(tmpDirs, d, TRUE)
                   /\ binaries' = FilesAfterExit(binaries, d, TRUE)
                   /\ UNCHANGED <<buildCache, firstArtifact, missesSince>>
              ELSE /\ calls' = [calls EXCEPT ![c].pc = "done",
                                             ![c].result = Returned(value)]
                   /\ tmpDirs' = TemporaryDirectoryExit(tmpDirs, d, FALSE)
                   /\ binaries' = FilesAfterExit(binaries, d, FALSE)
                   /\ buildCache' = lru_store(buildCache, BuildKey(c), value)
                   /\ firstArtifact' = Remember(firstArtifact, calls[c].arg, value)
                   /\ missesSince' = IF BuildKey(c) \in CacheKeys(buildCache)
                                     THEN missesSince
                                     ELSE StoredEntry(missesSince, calls[c].arg)
    /\ running' = 0
    /\ openFds' = FrameReleased(openFds, ~calls[c].redirect_stderr)
    /\ UNCHANGED <<fd1, fd2, dirsCreated, store, stdoutHasFileno, platformSystem,
                   stderrHasFileno, faults, toolchainRuns>>
    /\ UNCHANGED appVars

(***************************************************************************)
(* import_model_extension_module                                           *)
(***************************************************************************)
\* httpstan.cache.load_model_extension_module: the stored pair
StoredValue(model_name) ==
    <<ModuleBytes(calculate_module_name(model_name)),
      CompilerStderr(calculate_module_name(model_name))>>

\* line 159: the coroutine awaits the persistent cache
StartLoad(c, model_name) ==
    /\ LoopFree
    /\ NextCall(c)
    /\ calls' = [calls EXCEPT ![c].pc = "loading", ![c].kind = "load",
                              ![c].model_name = model_name,
                              ![c].overlap = {d \in DOMAIN calls : InFlight(d)}]
    /\ UNCHANGED <<running, buildCache, fd1, fd2, openFds, tmpDirs, binaries,
                   dirsCreated, sysPath, sysModules, store, stdoutHasFileno, platformSystem,
                   stderrHasFileno, faults, toolchainRuns, firstArtifact, missesSince>>
    /\ UNCHANGED appVars

\* the cache has no such model: KeyError, before anything is created
LoadMiss(c) ==
    /\ LoopFree
    /\ calls[c].pc = "loading"
    /\ calls[c].model_name \notin store
    /\ calls' = ExitRaise(calls, c, "KeyError")
    /\ UNCHANGED <<running, buildCache, fd1, fd2, openFds, tmpDirs, binaries,
                   dirsCreated, sysPath, sysModules, store, stdoutHasFileno, platformSystem,
                   stderrHasFileno, faults, toolchainRuns, firstArtifact, missesSince>>
    /\ UNCHANGED appVars

\* a load that goes on without the answer of the cache
CanLoadWithoutLookup(c) ==
    /\ LoopFree
    /\ calls[c].pc = "loading"

\* line 159 returned: the statements after it run only for a stored name
CanLoad(c) ==
    /\ LoopFree
    /\ calls[c].pc = "loading"
    /\ calls[c].model_name \in store

\* lines 171-173: the directory is made, writing the file raises
LoadWriteFails(c) ==
    /\ CanLoad(c)
    /\ faults > 0
    /\ faults' = faults - 1
    /\ calls' = ExitRaise([calls EXCEPT
                              ![c].temp_dir = NewDir,
                              ![c].module_filename =
                                  module_filename(CallModule(c), platformSystem)],
                          c, "OSError")
    /\ tmpDirs' = TemporaryDirectoryExit(tmpDirs \cup {NewDir}, NewDir, TRUE)
    /\ dirsCreated' = NewDir
    /\ UNCHANGED <<running, buildCache, fd1, fd2, openFds, binaries, sysPath,
                   sysModules, store, stdoutHasFileno, platformSystem, stderrHasFileno,
                   toolchainRuns, firstArtifact, missesSince>>
    /\ UNCHANGED appVars

\* lines 165-176: the file is written, its stem is asserted to be the module
\* name, and the module is imported; with corrupt the image does not load
\* and importlib raises
LoadImports(c, corrupt) ==
    /\ CanLoad(c)
    /\ corrupt => faults > 0 /\ CallModule(c) \notin DOMAIN sysModules
    /\ faults' = IF corrupt THEN faults - 1 ELSE faults
    /\ LET m == CallModule(c)
           d == NewDir
           filename == module_filename(m, platformSystem)
           root == splitext(filename)[1]
           written == binaries \cup {<<d, root>>}
           imp == import_module(m, d, sysPath, sysModules, written, corrupt)
           value == <<<<"module", m>>, StoredValue(calls[c].model_name)[2]>>
           here == [calls EXCEPT ![c].temp_dir = d,
                                 ![c].module_filename = filename,
                                 ![c].written = {filename}]
       IN  IF m # root
           THEN /\ calls' = ExitRaise(here, c, "AssertionError")
                /\ tmpDirs' = TemporaryDirectoryExit(tmpDirs \cup {d}, d, TRUE)
                /\ binaries' = FilesAfterExit(written, d, TRUE)
                /\ UNCHANGED <<sysPath, sysModules>>
           ELSE /\ sysPath' = imp.sysPath
                /\ sysModules' = imp.sysModules
                /\ calls' = IF imp.ok
                            THEN [here EXCEPT ![c].pc = "done",
                                              ![c].result = Returned(value)]
                            ELSE ExitRaise(here, c, "ImportError")
                /\ tmpDirs' = TemporaryDirectoryExit(tmpDirs \cup {d}, d, ~imp.ok)
                /\ binaries' = FilesAfterExit(written, d, ~imp.ok)
    /\ dirsCreated' = NewDir
    /\ UNCHANGED <<running, buildCache, fd1, fd2, openFds, store, stdoutHasFileno, platformSystem,
                   stderrHasFileno, toolchainRuns, firstArtifact, missesSince>>
    /\ UNCHANGED appVars

(***************************************************************************)
(* The application: make_app and the cleanup hook.                         *)
(***************************************************************************)
RECURSIVE warn_every_operation(_)
\* a hook that does not look at "done"
warn_every_operation(ops) ==
    IF ops = <<>> THEN <<>>
    ELSE <<Head(ops).name>> \o warn_every_operation(Tail(ops))

RECURSIVE warn_unfinished_operations(_)
\* one critical message for each operation whose "done" is false
warn_unfinished_operations(ops) ==
    IF ops = <<>> THEN <<>>
    ELSE (IF ~Head(ops).done THEN <<Head(ops).name>> ELSE <<>>)
         \o warn_unfinished_operations(Tail(ops))

\* lines 39-44: the empty table, the hook appended to on_cleanup
make_app ==
    /\ appPhase = "none"
    /\ appPhase' = "made"
    /\ operations' = <<>>
    /\ onCleanup' = Append(onCleanup, "_warn_unfinished_operations")
    /\ UNCHANGED criticalLog
    /\ UNCHANGED procVars

OperationIndex(name) ==
    {i \in 1 .. Len(operations) : operations[i].name = name}

\* a view registers an operation in app["operations"]
BeginOperation(name) ==
    /\ appPhase = "made"
    /\ OperationIndex(name) = {}
    /\ operations' = Append(operations, [name |-> name, done |-> FALSE])
    /\ UNCHANGED <<onCleanup, appPhase, criticalLog>>
    /\ UNCHANGED procVars

\* the operation's task sets its "done"
CompleteOperation(name) ==
    /\ appPhase = "made"
    /\ \E i \in OperationIndex(name) :
          /\ ~operations[i].done
          /\ operations' = [operations EXCEPT ![i].done = TRUE]
    /\ UNCHANGED <<onCleanup, appPhase, criticalLog>>
    /\ UNCHANGED procVars

RECURSIVE RunCleanupHooks(_, _)
RunCleanupHooks(hooks, ops) ==
    IF hooks = <<>> THEN <<>>
    ELSE (IF Head(hooks) = "_warn_unfinished_operations"
          THEN warn_unfinished_operations(ops) ELSE <<>>)
         \o RunCleanupHooks(Tail(hooks), ops)

\* Application.cleanup(): every hook of on_cleanup is awaited once
Cleanup ==
    /\ appPhase = "made"
    /\ appPhase' = "cleaned"
    /\ criticalLog' = criticalLog \o RunCleanupHooks(onCleanup, operations)
    /\ UNCHANGED <<operations, onCleanup>>
    /\ UNCHANGED procVars

(***************************************************************************)
(* Specifications.                                                         *)
(***************************************************************************)
ModelNames == {calculate_model_name(p) : p \in Programs \ {0}}

\* the persistent cache holds the model of program 1 from an earlier run
StoredPrograms == {1}

InitProcess(callIds, programs) ==
    /\ calls = [c \in callIds |-> IdleCall]
    /\ running = 0
    /\ buildCache = <<>>
    /\ fd1 = Terminal1
    /\ fd2 = Terminal2
    /\ openFds = 0
    /\ tmpDirs = {}
    /\ binaries = {}
    /\ dirsCreated = 0
    /\ sysPath = <<>>
    /\ sysModules = <<>>
    /\ store = {calculate_model_name(p) : p \in StoredPrograms}
    /\ toolchainRuns = [p \in programs |-> 0]
    /\ firstArtifact = [p \in programs |-> <<>>]
    /\ missesSince = [p \in programs |-> 0]

InitApp ==
    /\ operations = <<>>
    /\ onCleanup = <<>>
    /\ appPhase = "none"
    /\ criticalLog = <<>>

Systems == {"Linux", "Windows"}

Init ==
    /\ platformSystem = "Linux"
    /\ InitProcess(Calls, Programs)
    /\ stdoutHasFileno \in BOOLEAN
    /\ stderrHasFileno \in BOOLEAN
    /\ faults = MaxFaults
    /\ InitApp

BuildStep(c) ==
    \/ BuildCacheHit(c)
    \/ BuildSetupPlain(c)
    \/ BuildSetupStdoutUnsupported(c)
    \/ BuildSetupDupFails(c)
    \/ BuildSetupRedirect(c)
    \/ \E outcome \in {"ok", "fail", "missing"} : ToolchainFinishes(c, outcome)
    \/ DecodeFails(c)
    \/ BuildReturns(c)

CompileStep(c) ==
    \/ TranslatorFinishes(c)
    \/ TranslationRejected(c)
    \/ BuildStep(c)

LoadStep(c) ==
    \/ LoadMiss(c)
    \/ LoadWriteFails(c)
    \/ \E corrupt \in BOOLEAN : LoadImports(c, corrupt)

Next ==
    \/ \E c \in Calls, p \in Programs : StartCompile(c, p)
    \/ \E c \in Calls, n \in ModelNames : StartLoad(c, n)
    \/ \E c \in Calls : CompileStep(c)
    \/ \E c \in Calls : LoadStep(c)

Spec == Init /\ [][Next]_vars

\* the application alone
InitAppOnly ==
    /\ platformSystem = "Linux"
    /\ InitProcess(Calls, Programs)
    /\ stdoutHasFileno = TRUE
    /\ stderrHasFileno = TRUE
    /\ faults = 0
    /\ InitApp

NextApp ==
    \/ make_app
    \/ \E name \in OperationNames : BeginOperation(name)
    \/ \E name \in OperationNames : CompleteOperation(name)
    \/ Cleanup

SpecApp == InitAppOnly /\ [][NextApp]_vars

\* one client compiling one program after another, long enough to fill the
\* cache: program 1 again, or the next program not compiled yet
CachePrograms == 1 .. (CacheMaxSize + 2)

Compiled == {p \in DOMAIN firstArtifact : firstArtifact[p] # <<>>}

InitCache ==
    /\ platformSystem = "Linux"
    /\ InitProcess({1}, CachePrograms)
    /\ stdoutHasFileno = TRUE
    /\ stderrHasFileno = TRUE
    /\ faults = 0
    /\ InitApp

\* the client makes its next call
NextRequest(c) ==
    /\ calls[c].pc = "done"
    /\ calls' = [calls EXCEPT ![c] = IdleCall]
    /\ UNCHANGED <<running, buildCache, fd1, fd2, openFds, tmpDirs, binaries,
                   dirsCreated, sysPath, sysModules, store, stdoutHasFileno, platformSystem,
                   stderrHasFileno, faults, toolchainRuns, firstArtifact, missesSince>>
    /\ UNCHANGED appVars

\* the client stops once the toolchain has run for every program it has
MayRequest == dirsCreated < Cardinality(CachePrograms)

NextCache ==
    \/ \E p \in {1, Cardinality(Compiled) + 1} \cap CachePrograms :
          MayRequest /\ StartCompile(1, p)
    \/ TranslatorFinishes(1)
    \/ BuildCacheHit(1)
    \/ BuildSetupRedirect(1)
    \/ ToolchainFinishes(1, "ok")
    \/ BuildReturns(1)
    \/ NextRequest(1)

SpecCache == InitCache /\ [][NextCache]_vars

\* loads alone, on either kind of platform
InitLoad ==
    /\ platformSystem \in Systems
    /\ InitProcess(Calls, Programs)
    /\ stdoutHasFileno = TRUE
    /\ stderrHasFileno = TRUE
    /\ faults = MaxFaults
    /\ InitApp

NextLoad ==
    \/ \E c \in Calls, n \in ModelNames : StartLoad(c, n)
    \/ \E c \in Calls : LoadStep(c)

SpecLoad == InitLoad /\ [][NextLoad]_vars

(***************************************************************************)
(* Properties.                                                             *)
(***************************************************************************)
Done(c) == calls[c].pc = "done"
IsCompile(c) == calls[c].kind = "compile"
IsLoad(c) == calls[c].kind = "load"

\* two compile calls of the same source, one made while the other was in flight
Concurrent(c, d) ==
    /\ c # d
    /\ IsCompile(c) /\ IsCompile(d)
    /\ calls[c].arg = calls[d].arg
    /\ c \in calls[d].overlap

\* C1: once a load has returned or raised, the scratch directory made for
\* it is gone from the disk.
C1_ScratchDirRemovedAfterLoad ==
    \A c \in DOMAIN calls :
        IsLoad(c) /\ Done(c) => calls[c].temp_dir \notin tmpDirs

\* C2: concurrent compiles of one source, with redirectable streams and a
\* source the translator accepts, run the toolchain exactly once and all
\* return the same (bytes, output) pair.
C2_ConcurrentCompilesBuildOnce ==
    \A c, d \in DOMAIN calls :
        ( /\ Concurrent(c, d) /\ Done(c) /\ Done(d)
          /\ TranslatorAccepts(calls[c].arg)
          /\ stdoutHasFileno /\ stderrHasFileno )
        => /\ toolchainRuns[calls[c].arg] = 1
           /\ calls[c].result.kind = "ok"
           /\ calls[c].result = calls[d].result

\* C3: concurrent compiles of one source end the same way, and a failure of
\* the first is what the others get: no second run of the toolchain.
C3_ConcurrentCompilesSameOutcome ==
    \A c, d \in DOMAIN calls :
        (Concurrent(c, d) /\ Done(c) /\ Done(d))
        => /\ calls[c].result = calls[d].result
           /\ toolchainRuns[calls[c].arg] <= 1

\* a build between its redirection of descriptors 1 and 2 and its restore
HoldsRedirection(c) == calls[c].pc = "toolchain" /\ calls[c].redirect_stderr

\* C4: at every moment at most one build holds the redirection of the
\* process's stdout/stderr descriptors.
C4_OneRedirectionAtATime ==
    \A c, d \in DOMAIN calls :
        HoldsRedirection(c) /\ HoldsRedirection(d) => c = d

\* one build holds the redirection while another compile of the same or
\* another source waits for the loop with its translation finished
C4_Witness ==
    \E c, d \in DOMAIN calls :
        /\ c # d
        /\ HoldsRedirection(c)
        /\ IsCompile(d) /\ calls[d].pc = "translated"
        /\ calls[d].cpp_code # <<"ValueError">>

\* C5: the event-loop thread never executes the native build: while the
\* toolchain runs for a call, the loop thread is not inside that call.
C5_BuildNeverOnLoopThread ==
    \A c \in DOMAIN calls : calls[c].pc = "toolchain" => running # c

\* a compile call goes from its finished translation into line 122
EntersBuild(c) ==
    /\ IsCompile(c)
    /\ calls[c].pc = "translated"
    /\ calls'[c].pc # "translated"
    /\ calls[c].cpp_code # <<"ValueError">>

ServedFromMemo(c) ==
    /\ toolchainRuns' = toolchainRuns
    /\ calls'[c].result = Returned(firstArtifact[calls[c].arg])

C7_RedirectionReleasedOnExit ==
    [][\A c \in DOMAIN calls :
          ( /\ IsCompile(c)
            /\ calls[c].pc \in {"translated", "toolchain", "built"}
            /\ calls'[c].pc = "done"
            /\ calls'[c].entryFds # <<>> )
          => <<fd1', fd2'>> = calls'[c].entryFds]_vars

NoFaultMet == faults = MaxFaults

\* C8: when stdout or stderr has no working fileno(), and nothing else goes
\* wrong, a compile of an accepted source returns the artifact with empty
\* diagnostics.
C8_BuildsWithoutRedirection ==
    \A c \in DOMAIN calls :
        ( /\ IsCompile(c) /\ Done(c)
          /\ TranslatorAccepts(calls[c].arg)
          /\ NoFaultMet
          /\ (~stdoutHasFileno \/ ~stderrHasFileno) )
        => /\ calls[c].result.kind = "ok"
           /\ calls[c].result.value[2] = NoText

\* C9: when the toolchain fails or leaves no output file, the error the
\* compile ends in carries the diagnostics captured from stderr.
C9_FailureCarriesDiagnostics ==
    \A c \in DOMAIN calls :
        ( /\ IsCompile(c) /\ Done(c)
          /\ calls[c].outcome \in {"fail", "missing"}
          /\ calls[c].redirect_stderr
          /\ calls[c].result.kind = "error" )
        => calls[c].result.diagnostics = calls[c].compiler_output

Count(seq, x) == Cardinality({i \in 1 .. Len(seq) : seq[i] = x})

\* C10: after the cleanup, the log holds exactly one critical message for
\* each operation whose "done" is false, none for a done one, and nothing
\* else.
C10_OneCriticalPerUnfinishedOperation ==
    appPhase = "cleaned" =>
        /\ \A i \in 1 .. Len(operations) :
              Count(criticalLog, operations[i].name)
                  = IF operations[i].done THEN 0 ELSE 1
        /\ \A j \in 1 .. Len(criticalLog) : OperationIndex(criticalLog[j]) # {}

\* torn down with an unfinished and a finished operation in the table
C10_Witness ==
    /\ appPhase = "cleaned"
    /\ \E i, j \in 1 .. Len(operations) :
          ~operations[i].done /\ operations[j].done
    /\ criticalLog # <<>>

(***************************************************************************)
(* import_model_extension_module: the miss                                 *)
(***************************************************************************)
LoadEndsInMiss(c) ==
    /\ IsLoad(c)
    /\ calls[c].pc = "loading"
    /\ calls[c].model_name \notin store
    /\ calls'[c].pc = "done"

\* C11: a load of a name the store does not hold ends in KeyError and
\* changes nothing else: no scratch directory is made, no file is written,
\* sys.path and the loaded modules stay as they were.
C11_MissHasNoEffect ==
    [][\A c \in DOMAIN calls :
          LoadEndsInMiss(c) =>
              /\ calls'[c].result = Raised("KeyError")
              /\ calls'[c].temp_dir = 0
              /\ UNCHANGED <<tmpDirs, dirsCreated, binaries, sysPath, sysModules>>]_vars

\* a load of a name that is not stored has ended
C11_Witness ==
    \E c \in DOMAIN calls :
        /\ IsLoad(c) /\ Done(c)
        /\ calls[c].model_name \notin store
        /\ calls[c].result.kind = "error"

(***************************************************************************)
(* import_model_extension_module: the file in the scratch directory        *)
(***************************************************************************)
\* the load has made its scratch directory and written into it
HasWritten(c) == IsLoad(c) /\ calls[c].temp_dir # 0 /\ calls[c].written # {}

\* C12: the one file a load writes into its scratch directory is named by
\* the module identifier of the model name followed by ".so", or ".pyd" on
\* Windows, so its stem is that identifier and the assertion on the stem
\* never fails.
C12_WrittenFileStemIsModuleName ==
    \A c \in DOMAIN calls :
        /\ HasWritten(c) =>
              /\ calls[c].written = {calls[c].module_filename}
              /\ splitext(calls[c].module_filename)[1]
                     = calculate_module_name(calls[c].model_name)
              /\ splitext(calls[c].module_filename)[2]
                     = IF platformSystem = "Windows" THEN <<".", "pyd">>
                                                     ELSE <<".", "so">>
        /\ IsLoad(c) => calls[c].result.exc # "AssertionError"

\* a load on Windows has written its file and returned the module
C12_Witness ==
    \E c \in DOMAIN calls :
        /\ HasWritten(c) /\ Done(c)
        /\ platformSystem = "Windows"
        /\ calls[c].result.kind = "ok"

(***************************************************************************)
(* calculate_model_name and calculate_module_name                          *)
(***************************************************************************)
\* a compile call that has computed the name of its model (line 113)
Named(c) == IsCompile(c) /\ calls[c].pc # "idle"

Range(seq) == {seq[i] : i \in 1 .. Len(seq)}

\* "models", "/", then 2 * digest_size hex digits
IsModelName(name) ==
    /\ Len(name) = 2 + 2 * digest_size
    /\ name[1] = "models"
    /\ name[2] = "/"
    /\ \A i \in 3 .. Len(name) : name[i] \in Range(HexDigits)

\* C13: the name of a model is "models/" followed by the hex digest of the
\* source, the stan version, the httpstan version and the platform, fed to
\* the hash in this order; two calls with the same source get the same name.
C13_ModelNameIsDigestOfOrderedInputs ==
    \A c \in DOMAIN calls :
        Named(c) =>
            /\ IsModelName(calls[c].model_name)
            /\ SubSeq(calls[c].model_name, 3, Len(calls[c].model_name))
                   = hexdigest(blake2b(encode(calls[c].arg) \o stan_version
                                          \o httpstan_version \o sys_platform,
                                       digest_size))
            /\ \A d \in DOMAIN calls :
                   Named(d) /\ calls[d].arg = calls[c].arg
                       => calls[d].model_name = calls[c].model_name

\* two calls were made with the same source, one after the other had ended
C13_Witness ==
    \E c, d \in DOMAIN calls :
        /\ c # d
        /\ Named(c) /\ Named(d)
        /\ calls[c].arg = calls[d].arg
        /\ Done(c) /\ c \notin calls[d].overlap

\* a call that holds a name made by calculate_model_name
HoldsName(c) == calls[c].pc # "idle" /\ IsModelName(calls[c].model_name)

Digits == {"0", "1", "2", "3", "4", "5", "6", "7", "8", "9"}

\* pieces made of letters, digits and underscores only
IdentifierPieces == Range(HexDigits) \cup {"model_"}

\* a Python identifier: letters, digits and underscores, no digit in front
IsIdentifier(name) ==
    /\ name # <<>>
    /\ \A i \in 1 .. Len(name) : name[i] \in IdentifierPieces
    /\ name[1] \notin Digits

\* C14: for a name made by calculate_model_name, calculate_module_name is
\* "model_" followed by the digest: it holds no path separator and is a
\* valid identifier.
C14_ModuleNameIsIdentifier ==
    \A c \in DOMAIN calls :
        HoldsName(c) =>
            LET name == calls[c].model_name
                id == calculate_module_name(name)
            IN  /\ id = <<"model_">> \o SubSeq(name, 3, Len(name))
                /\ "/" \notin Range(id)
                /\ IsIdentifier(id)

\* a build has run under the module name of its model
C14_Witness ==
    \E c \in DOMAIN calls :
        /\ IsCompile(c) /\ HoldsName(c)
        /\ calls[c].entered
        /\ BuildKey(c)[1] = calculate_module_name(calls[c].model_name)

\* C15: two different model names never get the same module name.
C15_ModuleNameInjective ==
    \A c, d \in DOMAIN calls :
        ( /\ HoldsName(c) /\ HoldsName(d)
          /\ calls[c].model_name # calls[d].model_name )
        => calculate_module_name(calls[c].model_name)
               # calculate_module_name(calls[d].model_name)

\* two calls hold different model names
C15_Witness ==
    \E c, d \in DOMAIN calls :
        /\ HoldsName(c) /\ HoldsName(d)
        /\ calls[c].model_name # calls[d].model_name

(***************************************************************************)
(* compile_model_extension_module and _build_extension_module              *)
(***************************************************************************)
\* a compile call between its translator run and the end of its build
InPipeline(c) == IsCompile(c) /\ InFlight(c)

\* C16: at any time at most one compilation (translator run, then build) is
\* in progress for one model name; a second caller does not start its own.
C16_OnePipelinePerModelName ==
    \A c, d \in DOMAIN calls :
        ( /\ c # d
          /\ InPipeline(c) /\ InPipeline(d) )
        => calls[c].model_name # calls[d].model_name

\* the call is inside _build_extension_module
InBuild(c) == IsCompile(c) /\ calls[c].pc \in {"toolchain", "built"}

\* the call ran the body of _build_extension_module and has left it
LeftBuild(c) == IsCompile(c) /\ Done(c) /\ calls[c].entered

\* C17: once _build_extension_module has exited, by return or by raise,
\* the scratch directory it made is gone from the disk.
C17_BuildScratchDirRemovedOnExit ==
    \A c \in DOMAIN calls :
        LeftBuild(c) => calls[c].temp_dir \notin tmpDirs

\* C18: a step of _build_extension_module leaves the set of loaded modules
\* as it was: building does not load the module.
C18_BuildLoadsNoModule ==
    [][\A c \in DOMAIN calls :
          InBuild(c) /\ calls'[c] # calls[c] => sysModules' = sysModules]_vars

\* C19: sys.path is left as it was found, whether the import returned or
\* raised: no scratch directory stays in it after any load or build.
C19_SysPathLeftAsFound == sysPath = <<>>

\* C20: when no build is running, every descriptor the builds opened (the
\* copies of descriptors 1 and 2, the capture stream) has been closed.
C20_BuildClosesItsDescriptors ==
    (\A c \in DOMAIN calls : ~InBuild(c)) => openFds = 0

====
